---- MODULE Spec2Model ----
(***************************************************************************)
(* Model of src/src/nsightDemo/blur.cpp: a benchmark harness around a      *)
(* two-stage box blur.  Spec is one run of main(): argument parsing, input *)
(* allocation, Blur construction, schedule_for_gpu, test_performance.      *)
(*                                                                         *)
(* Calls into the external compiler library (load_plugin, auto_schedule,   *)
(* compile_jit, realize, device_sync) are modelled by their nominal        *)
(* effect; they are recorded in the event log in program order.  The wall  *)
(* clock counts whole milliseconds exactly; current_time() returns it as a *)
(* C double, and t1, t2, elapsed, total_time and best_time are doubles     *)
(* with the rounding of double arithmetic.                                 *)
(***************************************************************************)
EXTENDS Integers, Sequences, FiniteSets, TLC

VARIABLES
    \* ---- inputs of one run (fixed by Init) ----
    argc,          \* main's argc
    argv1,         \* argv[1] when argc >= 2
    hostOS,        \* get_host_target().os
    hostDevices,   \* GPU features for which host_supports_target_device holds
    inShape,       \* extents <<batch, channels, height, width>> of the input
    num_runs,      \* parameter of test_performance
    \* ---- main ----
    pc,            \* position in main / test_performance
    scheduler,     \* main's local `scheduler`, then Blur::scheduler
    plugins,       \* plugins loaded by load_plugin, in order
    stderr,        \* lines written to standard error
    exitCode,      \* main's return value, NoExit while running
    input,         \* extents of the allocated input buffer, <<>> before
    \* ---- Blur::schedule_for_gpu ----
    target,        \* the resolved target, NoTarget before
    schedRet,      \* return value: "unset", "true", "false"
    directives,    \* stages that received manual scheduling directives
    estimates,     \* extents given to consumer.set_estimates, <<>> if none
    autoScheduled, \* name given to auto_blur.auto_schedule, "" if none
    compiled,      \* objects on which compile_jit(target) was called
    \* ---- Blur::test_performance ----
    output,        \* extents of the output buffer, <<>> before
    now,           \* the wall clock, in milliseconds, exact
    t1, t2,        \* the doubles read from the clock
    i,
    total_time, best_time,   \* the doubles of lines 106-107
    elapsedSeq,    \* history: elapsed (a double) of each finished timed iteration
    timedSeq,      \* history: clock at the start and duration of each timed execution
    outstanding,   \* executions launched on the GPU and not yet retired
    report,        \* what the three printf lines report, NoReport before
    log            \* every external call, in program order

vars == <<argc, argv1, hostOS, hostDevices, inShape, num_runs, pc, scheduler,
          plugins, stderr, exitCode, input, target, schedRet, directives,
          estimates, autoScheduled, compiled, output, now, t1, t2, i,
          total_time, best_time, elapsedSeq, timedSeq, outstanding, report, log>>

(***************************************************************************)
(* Bounds of the model.                                                    *)
(***************************************************************************)
MaxArgc == 4       \* argc ranges over 0..MaxArgc
MaxRuns == 3       \* num_runs ranges over 0..MaxRuns
MaxTick == 1       \* a short pipeline execution takes 0..MaxTick milliseconds

(***************************************************************************)
(* Program constants.                                                      *)
(***************************************************************************)
batch_size == 32
channels_in == 8
height == 258
width == 258

NoExit == 0 - 1
NoTarget == [os |-> "none", features |-> {}]
UsageLine == "Usage: .//relu_gpu [autoscheduler]"

SchedulerNames == {"", "Li2018", "Adams2019"}
NoArg == "<none>"
HostOSes == {"OSX", "Linux"}
Devices == {"CUDA", "Metal"}
\* Target::has_gpu_feature tests these features.
GpuFeatures == {"CUDA", "OpenCL", "Metal", "D3D12Compute", "OpenGLCompute"}
\* line 161: the only input main allocates.
Shapes == {<<batch_size, channels_in, height, width>>}

Ev(op, obj, it, out) == [op |-> op, obj |-> obj, iter |-> it, out |-> out]
Warmup == 0 - 1    \* iter field of the warm-up execution and of untimed calls

(***************************************************************************)
(* Natural numbers of any size, as sequences of 15-bit limbs, least        *)
(* significant first, without leading zero limbs (zero is <<>>).  The      *)
(* clock and the double-precision timings need more than the 31 bits of a  *)
(* machine integer of the checker.                                         *)
(***************************************************************************)
RECURSIVE Pow2(_)
Pow2(k) == IF k = 0 THEN 1 ELSE 2 * Pow2(k - 1)

\* Number of bits of n >= 0.
RECURSIVE BitLen(_)
BitLen(n) == IF n = 0 THEN 0 ELSE 1 + BitLen(n \div 2)

Limb == Pow2(15)

RECURSIVE BigTrim(_)
BigTrim(a) == IF a = <<>> THEN a
              ELSE IF a[Len(a)] = 0 THEN BigTrim(SubSeq(a, 1, Len(a) - 1)) ELSE a

RECURSIVE BigFromInt(_)
BigFromInt(n) == IF n = 0 THEN <<>> ELSE <<n % Limb>> \o BigFromInt(n \div Limb)

LimbOf(a) == IF a = <<>> THEN 0 ELSE Head(a)
RestOf(a) == IF a = <<>> THEN a ELSE Tail(a)

RECURSIVE BigAddC(_, _, _)
BigAddC(a, b, c) ==
    IF a = <<>> /\ b = <<>> THEN (IF c = 0 THEN <<>> ELSE <<c>>)
    ELSE LET s == LimbOf(a) + LimbOf(b) + c
         IN <<s % Limb>> \o BigAddC(RestOf(a), RestOf(b), s \div Limb)
BigAdd(a, b) == BigAddC(a, b, 0)

\* a - b for a >= b.
RECURSIVE BigSubB(_, _, _)
BigSubB(a, b, borrow) ==
    IF a = <<>> THEN <<>>
    ELSE LET d == Head(a) - LimbOf(b) - borrow
         IN <<(d + Limb) % Limb>> \o BigSubB(Tail(a), RestOf(b), IF d < 0 THEN 1 ELSE 0)
BigSub(a, b) == BigTrim(BigSubB(a, b, 0))

RECURSIVE BigLt(_, _)
BigLt(a, b) ==
    IF Len(a) # Len(b) THEN Len(a) < Len(b)
    ELSE IF a = <<>> THEN FALSE
    ELSE IF a[Len(a)] # b[Len(b)] THEN a[Len(a)] < b[Len(b)]
    ELSE BigLt(SubSeq(a, 1, Len(a) - 1), SubSeq(b, 1, Len(b) - 1))

\* a * k + c for 0 <= k, c < 2^15.
RECURSIVE BigMulSmall(_, _, _)
BigMulSmall(a, k, c) ==
    IF a = <<>> THEN (IF c = 0 THEN <<>> ELSE <<c>>)
    ELSE LET s == Head(a) * k + c
         IN <<s % Limb>> \o BigMulSmall(Tail(a), k, s \div Limb)

\* Quotient (not trimmed) and remainder of a by d, 1 <= d < 2^15.
RECURSIVE BigDivRem(_, _)
BigDivRem(a, d) ==
    IF a = <<>> THEN [q |-> <<>>, r |-> 0]
    ELSE LET h == BigDivRem(Tail(a), d)
             cur == h.r * Limb + Head(a)
         IN [q |-> <<cur \div d>> \o h.q, r |-> cur % d]

BigBitLen(a) == IF a = <<>> THEN 0 ELSE 15 * (Len(a) - 1) + BitLen(a[Len(a)])
BigShl(a, k) == IF a = <<>> THEN a
                ELSE [j \in 1..(k \div 15) |-> 0] \o BigTrim(BigMulSmall(a, Pow2(k % 15), 0))
BigShr(a, k) == IF k \div 15 >= Len(a) THEN <<>>
                ELSE BigTrim(BigDivRem(SubSeq(a, (k \div 15) + 1, Len(a)), Pow2(k % 15)).q)
BigOdd(a) == a # <<>> /\ a[1] % 2 = 1

RECURSIVE BigSum(_)
BigSum(s) == IF s = <<>> THEN <<>> ELSE BigAdd(Head(s), BigSum(Tail(s)))

(***************************************************************************)
(* C `double` arithmetic on non-negative values.  A double is <<m, e>>     *)
(* with value m * 2^e and 2^52 <= m < 2^53, or DZero; every operation      *)
(* rounds its exact result to nearest, ties to even.                       *)
(***************************************************************************)
DZero == <<<<>>, 0>>
\* Not-a-number, the result of 0.0 / 0; it is never an operand.
NaN == <<<<>>, 1>>

\* n * 2^e, plus a positive amount below 2^e when sticky, rounded to a double.
\* With sticky, n has at least 55 bits.
DRound(n, e, sticky) ==
    IF n = <<>> THEN DZero
    ELSE LET bl == BigBitLen(n) IN
         IF bl <= 53 THEN <<BigShl(n, 53 - bl), e - (53 - bl)>>
         ELSE LET s == bl - 53
                  q == BigShr(n, s)
                  rem == BigSub(n, BigShl(q, s))
                  half == BigShl(<<1>>, s - 1)
                  up == \/ BigLt(half, rem)
                        \/ rem = half /\ (sticky \/ BigOdd(q))
                  r == IF up THEN BigAdd(q, <<1>>) ELSE q
              IN IF BigBitLen(r) = 54 THEN <<BigShr(r, 1), e + s + 1>>
                 ELSE <<r, e + s>>

\* Conversion of an integer to double.
DFromBig(n) == DRound(n, 0, FALSE)
DFromInt(n) == DFromBig(BigFromInt(n))

MinExp(a, b) == IF a[2] < b[2] THEN a[2] ELSE b[2]
\* The mantissa of a at the exponent e <= a[2].
Scaled(a, e) == BigShl(a[1], a[2] - e)

DAdd(a, b) ==
    IF a = DZero THEN b ELSE IF b = DZero THEN a
    ELSE DRound(BigAdd(Scaled(a, MinExp(a, b)), Scaled(b, MinExp(a, b))),
                MinExp(a, b), FALSE)

DLt(a, b) ==
    IF b = DZero THEN FALSE
    ELSE IF a = DZero THEN TRUE
    ELSE a[2] < b[2] \/ (a[2] = b[2] /\ BigLt(a[1], b[1]))
DLe(a, b) == ~DLt(b, a)

\* a - b for a >= b (the clock never runs backwards).
DSub(a, b) ==
    IF b = DZero THEN a
    ELSE DRound(BigSub(Scaled(a, MinExp(a, b)), Scaled(b, MinExp(a, b))),
                MinExp(a, b), FALSE)

\* (n * 2^e) / d for an int 1 <= d < 2^15 converted to double.
DDiv(n, e, d) ==
    IF n = <<>> THEN DZero
    ELSE LET s == IF BigBitLen(n) < 75 THEN 75 - BigBitLen(n) ELSE 0
             q == BigDivRem(BigShl(n, s), d)
         IN DRound(BigTrim(q.q), e - s, q.r # 0)

\* a / n for an int n >= 0 converted to double; 0.0 / 0 is NaN.
DDivInt(a, n) == IF n = 0 THEN NaN ELSE DDiv(a[1], a[2], n)

NoReport == [runs |-> 0 - 1, average |-> DZero, best |-> DZero]

\* The durations one pipeline execution can take: a few milliseconds, or so
\* long (3 * (2^50 + 1) ms) that sums of such times exceed 2^53.
LongRun == BigMulSmall(BigAdd(BigShl(BigFromInt(1), 50), BigFromInt(1)), 3, 0)
Durations == {BigFromInt(c) : c \in 0..MaxTick} \cup {LongRun}

(***************************************************************************)
(* main, lines 135-155: the three-way branch on argc.                      *)
(***************************************************************************)
ArgBranchGE2(n) == IF n >= 2 THEN "auto" ELSE IF n = 1 THEN "manual" ELSE "usage"
ArgBranch(n) == IF n = 2 THEN "auto" ELSE IF n = 1 THEN "manual" ELSE "usage"

\* line 147: the plugin main loads; the name given in argv[1] is not used.
PluginToLoad(name) == "autoschedule_li2018"

ParseArgs ==
    /\ pc = "start"
    /\ LET b == ArgBranch(argc) IN
       /\ scheduler' = IF b = "auto" THEN argv1 ELSE ""
       /\ plugins' = IF b = "auto" THEN Append(plugins, PluginToLoad(argv1)) ELSE plugins
       /\ log' = IF b = "auto"
                 THEN Append(log, Ev("load_plugin", PluginToLoad(argv1), Warmup, <<>>))
                 ELSE log
       /\ stderr' = IF b = "usage" THEN Append(stderr, UsageLine) ELSE stderr
       /\ exitCode' = IF b = "usage" THEN 1 ELSE exitCode
       /\ pc' = IF b = "usage" THEN "exited" ELSE "gen_input"
    /\ UNCHANGED <<argc, argv1, hostOS, hostDevices, inShape, num_runs, input, target,
                   schedRet, directives, estimates, autoScheduled, compiled, output,
                   now, t1, t2, i, total_time, best_time, elapsedSeq, timedSeq, outstanding,
                   report>>

(***************************************************************************)
(* main, lines 157-170: allocate and fill the input buffer.                *)
(***************************************************************************)
GenerateInput ==
    /\ pc = "gen_input"
    /\ input' = inShape
    /\ log' = Append(log, Ev("alloc_input", "input", Warmup, inShape))
    /\ pc' = "schedule"
    /\ UNCHANGED <<argc, argv1, hostOS, hostDevices, inShape, num_runs, scheduler,
                   plugins, stderr, exitCode, target, schedRet, directives, estimates,
                   autoScheduled, compiled, output, now, t1, t2, i, total_time,
                   best_time, elapsedSeq, timedSeq, outstanding, report>>

(***************************************************************************)
(* find_gpu_target, lines 184-210.                                         *)
(***************************************************************************)
get_host_target(os) == [os |-> os, features |-> {}]
with_feature(t, f) == [t EXCEPT !.features = @ \cup {f}]
has_gpu_feature(t) == t.features \cap GpuFeatures # {}
host_supports_target_device(t, devs) == (t.features \cap GpuFeatures) \subseteq devs

features_to_try(t) == IF t.os = "OSX" THEN <<"Metal">> ELSE <<"CUDA">>

RECURSIVE TryFeatures(_, _, _)
TryFeatures(t, fs, devs) ==
    IF fs = <<>> THEN t
    ELSE IF host_supports_target_device(with_feature(t, Head(fs)), devs)
         THEN with_feature(t, Head(fs))
         ELSE TryFeatures(t, Tail(fs), devs)

find_gpu_target_unchecked(os, devs) ==
    with_feature(get_host_target(os), Head(features_to_try(get_host_target(os))))
find_gpu_target(os, devs) ==
    TryFeatures(get_host_target(os), features_to_try(get_host_target(os)), devs)

(***************************************************************************)
(* Blur::schedule_for_gpu, lines 39-91, as the record of its effects.      *)
(***************************************************************************)
ManualDirectives(t) == IF "CUDA" \in t.features THEN {"consumer", "producer"} ELSE {}

schedule_for_gpu(s, t, shape) ==
    IF ~has_gpu_feature(t) THEN
        [ret |-> "false", directives |-> {}, estimates |-> <<>>, auto |-> "",
         compiled |-> {}, events |-> <<>>]
    ELSE IF s = "" THEN
        [ret |-> "true", directives |-> ManualDirectives(t), estimates |-> <<>>,
         auto |-> "", compiled |-> {"consumer"},
         events |-> (IF ManualDirectives(t) # {}
                     THEN <<Ev("directives", "consumer", Warmup, <<>>),
                            Ev("directives", "producer", Warmup, <<>>)>>
                     ELSE <<>>)
                    \o <<Ev("compile_jit", "consumer", Warmup, <<>>)>>]
    ELSE
        [ret |-> "true", directives |-> {}, estimates |-> shape, auto |-> s,
         compiled |-> {"auto_blur"},
         events |-> <<Ev("set_estimates", "consumer", Warmup, shape),
                      Ev("auto_schedule", s, Warmup, <<>>),
                      Ev("compile_jit", "auto_blur", Warmup, <<>>)>>]

\* main, lines 173-176: construct the Blur and schedule it; the return value of
\* schedule_for_gpu is not looked at.
ScheduleForGpu ==
    /\ pc = "schedule"
    /\ LET t == find_gpu_target(hostOS, hostDevices)
           r == schedule_for_gpu(scheduler, t, input)
       IN
       /\ target' = t
       /\ schedRet' = r.ret
       /\ directives' = r.directives
       /\ estimates' = r.estimates
       /\ autoScheduled' = r.auto
       /\ compiled' = r.compiled
       /\ log' = log \o <<Ev("find_gpu_target", "", Warmup, <<>>)>> \o r.events
    /\ pc' = "test_performance"
    /\ UNCHANGED <<argc, argv1, hostOS, hostDevices, inShape, num_runs, scheduler,
                   plugins, stderr, exitCode, input, output, now, t1, t2, i,
                   total_time, best_time, elapsedSeq, timedSeq, outstanding, report>>

(***************************************************************************)
(* Blur::get_output_buffer, lines 33-36.                                   *)
(***************************************************************************)
get_output_buffer_full(shape) == <<shape[1], shape[2], shape[3], shape[4]>>
get_output_buffer(shape) == <<shape[1], shape[2], shape[3] - 2, shape[4] - 2>>

(***************************************************************************)
(* Blur::test_performance, lines 93-132.                                   *)
(***************************************************************************)
\* lines 98-103 and 111-116: the object that is realized.
RealizeObjConsumer(s) == "consumer"
RealizeObj(s) == IF s = "" THEN "consumer" ELSE "auto_blur"

\* Whether realizing obj launches GPU kernels: only a stage that was given GPU
\* block/thread loops (manual CUDA directives, or an autoschedule for the GPU
\* target) does; anything else runs on the host, synchronously.
HasGpuLoops(obj, dirs, auto) ==
    \/ obj = "consumer" /\ "consumer" \in dirs
    \/ obj = "auto_blur" /\ auto # ""

\* realize(output): a launch on the GPU returns at once and leaves its work
\* outstanding; an execution on the host is finished when realize returns.
Launch(out, it, cost, async) ==
    IF async THEN out \cup {[iter |-> it, cost |-> cost]} ELSE out
HostCost(cost, async) == IF async THEN <<>> ELSE cost

RECURSIVE CostOf(_)
CostOf(out) == IF out = {} THEN <<>>
               ELSE LET w == CHOOSE w \in out : TRUE
                    IN BigAdd(w.cost, CostOf(out \ {w}))

\* line 119, output.device_sync(): blocks until all launched work is retired.
device_sync_nowait(out) == [left |-> out, waited |-> <<>>]
device_sync(out) == [left |-> {}, waited |-> CostOf(out)]

\* lines 110 and 121, current_time(): the clock as a double.
current_time(clock) == DFromBig(clock)

\* lines 124-126.
BestUpdateNoFirst(it, elapsed, best) == IF DLt(elapsed, best) THEN elapsed ELSE best
BestUpdate(it, elapsed, best) == IF it = 0 \/ DLt(elapsed, best) THEN elapsed ELSE best

\* line 108: the loop condition.
LoopCond(it, n) == it < n

\* lines 95-107: allocate the output, run once untimed (no device_sync
\* follows), initialise the totals.
TPWarmup ==
    /\ pc = "test_performance"
    /\ \E cost \in Durations :
        LET obj == RealizeObj(scheduler)
            async == HasGpuLoops(obj, directives, autoScheduled)
            out == get_output_buffer(input)
        IN
        /\ output' = out
        /\ log' = log \o <<Ev("alloc_output", "output", Warmup, out),
                           Ev("realize", obj, Warmup, out)>>
        /\ outstanding' = Launch(outstanding, Warmup, cost, async)
        /\ now' = BigAdd(now, HostCost(cost, async))
    /\ total_time' = DZero
    /\ best_time' = DZero
    /\ i' = 0
    /\ pc' = "loop_head"
    /\ UNCHANGED <<argc, argv1, hostOS, hostDevices, inShape, num_runs, scheduler,
                   plugins, stderr, exitCode, input, target, schedRet, directives,
                   estimates, autoScheduled, compiled, t1, t2, elapsedSeq, timedSeq,
                   report>>

\* line 110: double t1 = current_time();
LoopT1 ==
    /\ pc = "loop_head"
    /\ LoopCond(i, num_runs)
    /\ t1' = current_time(now)
    /\ log' = Append(log, Ev("current_time", "t1", i, <<>>))
    /\ pc' = "loop_realize"
    /\ UNCHANGED <<argc, argv1, hostOS, hostDevices, inShape, num_runs, scheduler,
                   plugins, stderr, exitCode, input, target, schedRet, directives,
                   estimates, autoScheduled, compiled, output, now, t2, i, total_time,
                   best_time, elapsedSeq, timedSeq, outstanding, report>>

\* lines 111-116: the timed execution.
LoopRealize ==
    /\ pc = "loop_realize"
    /\ \E cost \in Durations :
        LET obj == RealizeObj(scheduler)
            async == HasGpuLoops(obj, directives, autoScheduled)
        IN
        /\ log' = Append(log, Ev("realize", obj, i, output))
        /\ outstanding' = Launch(outstanding, i, cost, async)
        /\ now' = BigAdd(now, HostCost(cost, async))
        /\ timedSeq' = Append(timedSeq, [start |-> now, work |-> cost])
    /\ pc' = "loop_sync"
    /\ UNCHANGED <<argc, argv1, hostOS, hostDevices, inShape, num_runs, scheduler,
                   plugins, stderr, exitCode, input, target, schedRet, directives,
                   estimates, autoScheduled, compiled, output, t1, t2, i, total_time,
                   best_time, elapsedSeq, report>>

\* line 119: output.device_sync();
LoopSync ==
    /\ pc = "loop_sync"
    /\ LET r == device_sync(outstanding) IN
       /\ outstanding' = r.left
       /\ now' = BigAdd(now, r.waited)
    /\ log' = Append(log, Ev("device_sync", "output", i, output))
    /\ pc' = "loop_t2"
    /\ UNCHANGED <<argc, argv1, hostOS, hostDevices, inShape, num_runs, scheduler,
                   plugins, stderr, exitCode, input, target, schedRet, directives,
                   estimates, autoScheduled, compiled, output, t1, t2, i, total_time,
                   best_time, elapsedSeq, timedSeq, report>>

\* lines 121-127 and the i++ of line 108.
LoopT2 ==
    /\ pc = "loop_t2"
    /\ t2' = current_time(now)
    /\ LET elapsed == DSub(current_time(now), t1) IN
       /\ best_time' = BestUpdate(i, elapsed, best_time)
       /\ total_time' = DAdd(total_time, elapsed)
       /\ elapsedSeq' = Append(elapsedSeq, elapsed)
    /\ i' = i + 1
    /\ log' = Append(log, Ev("current_time", "t2", i, <<>>))
    /\ pc' = "loop_head"
    /\ UNCHANGED <<argc, argv1, hostOS, hostDevices, inShape, num_runs, scheduler,
                   plugins, stderr, exitCode, input, target, schedRet, directives,
                   estimates, autoScheduled, compiled, output, now, t1, timedSeq,
                   outstanding, report>>

\* lines 129-131: the three values printed: num_runs, total_time / num_runs
\* and best_time.
TPReport ==
    /\ pc = "loop_head"
    /\ ~LoopCond(i, num_runs)
    /\ report' = [runs |-> num_runs, average |-> DDivInt(total_time, num_runs),
                  best |-> best_time]
    /\ pc' = "return"
    /\ UNCHANGED <<argc, argv1, hostOS, hostDevices, inShape, num_runs, scheduler,
                   plugins, stderr, exitCode, input, target, schedRet, directives,
                   estimates, autoScheduled, compiled, output, now, t1, t2, i,
                   total_time, best_time, elapsedSeq, timedSeq, outstanding, log>>

\* line 179: return 0;
MainReturn ==
    /\ pc = "return"
    /\ exitCode' = 0
    /\ pc' = "exited"
    /\ UNCHANGED <<argc, argv1, hostOS, hostDevices, inShape, num_runs, scheduler,
                   plugins, stderr, input, target, schedRet, directives, estimates,
                   autoScheduled, compiled, output, now, t1, t2, i, total_time,
                   best_time, elapsedSeq, timedSeq, outstanding, report, log>>

(***************************************************************************)
(* One run of main.                                                        *)
(***************************************************************************)
Init ==
    /\ argc \in 0..MaxArgc
    /\ argv1 \in (IF argc = 2 THEN SchedulerNames ELSE {NoArg})
    /\ hostOS \in HostOSes
    /\ hostDevices \in SUBSET Devices
    /\ inShape \in Shapes
    /\ num_runs \in 0..MaxRuns
    /\ pc = "start"
    /\ scheduler = ""
    /\ plugins = <<>>
    /\ stderr = <<>>
    /\ exitCode = NoExit
    /\ input = <<>>
    /\ target = NoTarget
    /\ schedRet = "unset"
    /\ directives = {}
    /\ estimates = <<>>
    /\ autoScheduled = ""
    /\ compiled = {}
    /\ output = <<>>
    /\ now = <<>> /\ t1 = DZero /\ t2 = DZero /\ i = 0
    /\ total_time = DZero /\ best_time = DZero
    /\ elapsedSeq = <<>>
    /\ timedSeq = <<>>
    /\ outstanding = {}
    /\ report = NoReport
    /\ log = <<>>

Next ==
    \/ ParseArgs
    \/ GenerateInput
    \/ ScheduleForGpu
    \/ TPWarmup
    \/ LoopT1
    \/ LoopRealize
    \/ LoopSync
    \/ LoopT2
    \/ TPReport
    \/ MainReturn

Spec == Init /\ [][Next]_vars

(***************************************************************************)
(* Properties of one run of main (checked under Spec).                     *)
(***************************************************************************)
Events(op) == {k \in 1..Len(log) : log[k].op = op}
ScheduleDone == Events("find_gpu_target") # {}
Candidates(os) == {features_to_try(get_host_target(os))[k] :
                       k \in 1..Len(features_to_try(get_host_target(os)))}
ExpectedOutShape == <<inShape[1], inShape[2], inShape[3] - 2, inShape[4] - 2>>

\* C1: the pipeline is realized only if the preceding schedule_for_gpu call
\* returned true, i.e. after a JIT compilation for a GPU-capable target; when
\* schedule_for_gpu returned false no realize call happens.
C1_RealizeOnlyIfScheduled ==
    \A k \in Events("realize") :
        /\ schedRet = "true"
        /\ \E j \in Events("compile_jit") : j < k

\* C2: on a host that supports none of the candidate GPU features,
\* find_gpu_target returns the plain host descriptor and schedule_for_gpu
\* returns false having applied no directive, set no estimates, invoked no
\* autoscheduler and compiled nothing.
C2_NoGpuFallsBack ==
    (ScheduleDone /\ Candidates(hostOS) \cap hostDevices = {}) =>
        /\ target = get_host_target(hostOS)
        /\ ~has_gpu_feature(target)
        /\ schedRet = "false"
        /\ directives = {} /\ estimates = <<>> /\ autoScheduled = "" /\ compiled = {}
        /\ Events("directives") \cup Events("set_estimates")
             \cup Events("auto_schedule") \cup Events("compile_jit") = {}
C2_Witness ==
    /\ hostOS = "Linux" /\ hostDevices = {"Metal"} /\ argc = 2 /\ argv1 = "Li2018"
    /\ ScheduleDone /\ schedRet = "false" /\ pc = "exited"

\* C3: with argc >= 3 main prints the usage line to standard error and returns
\* 1 having allocated no buffer, loaded no plugin and attempted no scheduling,
\* compilation or execution; with argc 1 or 2 it never takes the usage exit.
C3_UsageExit ==
    /\ (argc >= 3 /\ pc # "start") =>
          /\ pc = "exited" /\ exitCode = 1 /\ stderr = <<UsageLine>>
          /\ input = <<>> /\ output = <<>> /\ plugins = <<>> /\ log = <<>>
          /\ schedRet = "unset" /\ compiled = {} /\ report = NoReport
    /\ argc \in {1, 2} => (stderr = <<>> /\ exitCode # 1)
C3_Witness == argc = MaxArgc /\ pc = "exited" /\ exitCode = 1 /\ stderr = <<UsageLine>>

\* The plugin module that provides the autoscheduler of a given name.
PluginFor(name) ==
    CASE name = "Li2018" -> "autoschedule_li2018"
      [] name = "Adams2019" -> "autoschedule_adams2019"
      [] OTHER -> "autoschedule_"

\* C4: with exactly one argument the plugin loaded is the one that corresponds
\* to the name given in that argument, and it is loaded before the
\* autoscheduler is invoked and before any compilation; with no argument no
\* plugin load is ever attempted.
C4_PluginMatchesName ==
    /\ (argc = 2 /\ argv1 # "" /\ pc # "start") =>
          /\ plugins = <<PluginFor(argv1)>>
          /\ \A k \in Events("auto_schedule") \cup Events("compile_jit") :
                \E j \in Events("load_plugin") : j < k
    /\ argc = 1 => (plugins = <<>> /\ Events("load_plugin") = {})

\* Minimum of a non-empty sequence of doubles.
RECURSIVE DMinSeq(_)
DMinSeq(s) == IF Len(s) = 1 THEN Head(s)
              ELSE LET m == DMinSeq(Tail(s)) IN IF DLt(Head(s), m) THEN Head(s) ELSE m

\* acc + s[1] + ... + s[n], added left to right, each addition rounded.
RECURSIVE DFoldAdd(_, _)
DFoldAdd(acc, s) == IF s = <<>> THEN acc ELSE DFoldAdd(DAdd(acc, Head(s)), Tail(s))

\* The exact sum of a sequence of doubles, as the integer n of n * 2^e.
RECURSIVE SeqMinExp(_)
SeqMinExp(s) == IF s = <<>> THEN 0
                ELSE LET m == SeqMinExp(Tail(s)) IN IF Head(s)[2] < m THEN Head(s)[2] ELSE m
ExactSum(s) == LET e == SeqMinExp(s) IN BigSum([k \in 1..Len(s) |-> Scaled(s[k], e)])

\* The double d is exactly the sum of the doubles of s.
IsExactSum(d, s) ==
    LET es == SeqMinExp(s)
        e == IF d[2] < es THEN d[2] ELSE es
    IN Scaled(d, e) = BigShl(ExactSum(s), es - e)

\* The exact sum of s divided by n, as a double.
ExactAverage(s, n) == DDiv(ExactSum(s), SeqMinExp(s), n)

\* C5 as stated: for num_runs >= 1 and a clock that never runs backwards the
\* reported values satisfy 0 <= best <= average with best the minimum and
\* average the sum / num_runs of the per-iteration elapsed times; after every
\* iteration best_time is the minimum and total_time the sum of the elapsed
\* times so far.
C5_BestLeAverage ==
    /\ pc = "loop_t2" => DLe(t1, current_time(now))
    /\ (pc = "loop_head" /\ i >= 1) =>
          /\ Len(elapsedSeq) = i
          /\ best_time = DMinSeq(elapsedSeq)
          /\ IsExactSum(total_time, elapsedSeq)
    /\ (report # NoReport /\ num_runs >= 1) =>
          /\ report.best = DMinSeq(elapsedSeq)
          /\ report.average = ExactAverage(elapsedSeq, num_runs)
          /\ DLe(DZero, report.best)
          /\ DLe(report.best, report.average)

\* C5 as amended: after every iteration best_time is the minimum of the
\* elapsed times so far and total_time is their sum accumulated left to right
\* in double precision; the report gives that minimum, which is >= 0, and
\* total_time / num_runs in double precision; the average is the exact sum /
\* num_runs and best <= average whenever total_time is the exact sum, that is
\* whenever rounding the additions into total_time did not change the sum.
C5_BestLeAverageUnrounded ==
    /\ pc = "loop_t2" => DLe(t1, current_time(now))
    /\ (pc = "loop_head" /\ i >= 1) =>
          /\ Len(elapsedSeq) = i
          /\ best_time = DMinSeq(elapsedSeq)
          /\ total_time = DFoldAdd(DZero, elapsedSeq)
    /\ (report # NoReport /\ num_runs >= 1) =>
          /\ report.best = DMinSeq(elapsedSeq)
          /\ report.average = DDivInt(DFoldAdd(DZero, elapsedSeq), num_runs)
          /\ DLe(DZero, report.best)
          /\ IsExactSum(total_time, elapsedSeq) =>
                /\ report.average = ExactAverage(elapsedSeq, num_runs)
                /\ DLe(report.best, report.average)
C5_Witness ==
    /\ report # NoReport /\ report.runs >= 2
    /\ LongRun \in {timedSeq[k].work : k \in 1..Len(timedSeq)}
    /\ IsExactSum(total_time, elapsedSeq)
    /\ DLt(DZero, report.best) /\ DLt(report.best, report.average)

\* C6: on both scheduling paths the buffer every realize call writes to has
\* extents (batch, channels, height-2, width-2) of the input, whatever the
\* scheduler name and the resolved target.
C6_OutputShape ==
    /\ output \in {<<>>, ExpectedOutShape}
    /\ \A k \in Events("realize") : log[k].out = ExpectedOutShape
C6_Witness ==
    /\ inShape = <<batch_size, channels_in, height, width>>
    /\ \E k \in Events("realize") :
          log[k].obj = "auto_blur" /\ log[k].out = <<32, 8, 256, 256>>

\* The calls of the timed loop, in program order.
TimedLog == SelectSeq(log, LAMBDA e : e.iter >= 0)
TimedPattern == <<"current_time", "realize", "device_sync", "current_time">>

\* C7: every timed iteration reads the start clock, launches the execution,
\* device-syncs and reads the stop clock, in this order; the stop clock is not
\* read while GPU work of the iteration is outstanding, and no iteration's GPU
\* work is outstanding when the next start clock is read.
C7_SyncBeforeStopClock ==
    /\ \A p \in 1..Len(TimedLog) :
          /\ TimedLog[p].op = TimedPattern[((p - 1) % 4) + 1]
          /\ TimedLog[p].iter = (p - 1) \div 4
    /\ pc = "loop_t2" => \A w \in outstanding : w.iter # i
    /\ pc = "loop_head" => \A w \in outstanding : w.iter < 0
C7_Witness ==
    /\ pc = "loop_t2" /\ i = 1 /\ DSub(current_time(now), t1) = DFromInt(MaxTick)
    /\ HasGpuLoops(RealizeObj(scheduler), directives, autoScheduled)
    /\ outstanding = {}

\* C9: with a GPU target, an empty scheduler name compiles the consumer with no
\* estimates and no autoscheduler, with manual directives exactly when the
\* target has CUDA; a non-empty name sets estimates, invokes that autoscheduler
\* and compiles the pipeline with no manual directive; and what
\* test_performance realizes is the object that was compiled.
C9_PathsExclusive ==
    /\ (ScheduleDone /\ has_gpu_feature(target)) =>
          /\ schedRet = "true"
          /\ \/ /\ scheduler = ""
                /\ compiled = {"consumer"}
                /\ autoScheduled = "" /\ estimates = <<>>
                /\ Events("auto_schedule") \cup Events("set_estimates") = {}
                /\ (directives # {}) = ("CUDA" \in target.features)
                /\ (Events("directives") # {}) = ("CUDA" \in target.features)
                /\ \A k \in Events("compile_jit") : log[k].obj = "consumer"
             \/ /\ scheduler # ""
                /\ compiled = {"auto_blur"}
                /\ autoScheduled = scheduler /\ estimates = input
                /\ Events("set_estimates") # {} /\ Events("auto_schedule") # {}
                /\ directives = {} /\ Events("directives") = {}
                /\ \A k \in Events("compile_jit") : log[k].obj = "auto_blur"
          /\ \A k \in Events("realize") : log[k].obj \in compiled
C9_Witness ==
    /\ pc = "exited" /\ schedRet = "true"
    /\ hostOS = "OSX" /\ scheduler = "" /\ directives = {}
    /\ \E k \in Events("realize") : log[k].obj = "consumer"

\* What the stopwatch of one timed iteration reads when nothing but that
\* iteration's own execution runs between its two clock reads.
Stopwatch(w) == DSub(current_time(BigAdd(w.start, w.work)), current_time(w.start))
OwnTimes == [k \in 1..Len(timedSeq) |-> Stopwatch(timedSeq[k])]

\* C10: test_performance executes the pipeline num_runs + 1 times: one untimed
\* warm-up before the first clock read, which contributes to neither
\* total_time nor best_time (both are made of the timed executions' own
\* times), then num_runs timed executions each followed by one device-sync;
\* the loop terminates (i counts the finished passes, never exceeds num_runs
\* and the loop is left when it reaches num_runs) and the reported run count
\* is num_runs.
C10_WarmupPlusRuns ==
    /\ i <= num_runs
    /\ Cardinality({k \in Events("realize") : log[k].iter # Warmup}) <= num_runs
    /\ pc = "loop_head" =>
          /\ Len(elapsedSeq) = i
          /\ LoopCond(i, num_runs) \/ i = num_runs
    /\ pc \in {"return", "exited"} /\ argc \in {1, 2} => report # NoReport
    /\ pc = "loop_head" =>
          /\ total_time = DFoldAdd(DZero, OwnTimes)
          /\ i >= 1 => best_time = DMinSeq(OwnTimes)
    /\ report # NoReport =>
          /\ Cardinality(Events("realize")) = num_runs + 1
          /\ Cardinality({k \in Events("realize") : log[k].iter = Warmup}) = 1
          /\ \A k \in Events("realize") : \A c \in Events("current_time") :
                log[k].iter = Warmup => k < c
          /\ \A k \in Events("realize") :
                log[k].iter # Warmup => (k < Len(log) /\ log[k + 1].op = "device_sync")
          /\ Cardinality(Events("device_sync")) = num_runs
          /\ Len(elapsedSeq) = num_runs
          /\ report.runs = num_runs

====
